---- MODULE Spec2Model ----
(***************************************************************************)
(* A model of the image tool server of src/mcp_image.py: the Google Images *)
(* search (browser strategy, HTTP fallback, URL extraction) and the Azure  *)
(* upload/download tools.  Strings are TLA+ strings, i.e. sequences of     *)
(* characters, and the string functions of the code (strip, lower,         *)
(* replace, unquote, startswith, `in`, re.findall) are computed character  *)
(* by character.                                                           *)
(***************************************************************************)
EXTENDS Integers, Sequences, FiniteSets, TLC

(***************************************************************************)
(* String helpers (Python str semantics on ASCII text)                     *)
(***************************************************************************)
At(s, i) == SubSeq(s, i, i)

Range(f) == {f[i] : i \in DOMAIN f}

Min(S) == CHOOSE x \in S : \A y \in S : x <= y

\* str.startswith(p)
StartsWith(s, p) == Len(s) >= Len(p) /\ SubSeq(s, 1, Len(p)) = p

\* the text of s from position i on begins with p
StartsWithAt(s, i, p) == i + Len(p) - 1 <= Len(s) /\ SubSeq(s, i, i + Len(p) - 1) = p

\* `p in s` for strings
Contains(s, p) == \E i \in 1..(Len(s) - Len(p) + 1) : SubSeq(s, i, i + Len(p) - 1) = p

UpperLetters == "ABCDEFGHIJKLMNOPQRSTUVWXYZ"

LowerLetters == "abcdefghijklmnopqrstuvwxyz"

LowerChar(c) ==
    IF \E i \in 1..26 : At(UpperLetters, i) = c
    THEN At(LowerLetters, CHOOSE i \in 1..26 : At(UpperLetters, i) = c)
    ELSE c

\* str.lower(), by halves so that the evaluation depth stays logarithmic
RECURSIVE Lower(_)
Lower(s) ==
    IF Len(s) = 0 THEN ""
    ELSE IF Len(s) = 1 THEN LowerChar(s)
    ELSE LET h == Len(s) \div 2
         IN  Lower(SubSeq(s, 1, h)) \o Lower(SubSeq(s, h + 1, Len(s)))

\* the characters str.strip() and the regex class \s treat as white space
Whitespace == {" ", "\t", "\n", "\r", "\f"}

\* str.strip()
Strip(s) ==
    LET keep == {i \in 1..Len(s) : At(s, i) \notin Whitespace}
    IN  IF keep = {} THEN ""
        ELSE SubSeq(s, Min(keep), CHOOSE j \in keep : \A k \in keep : k <= j)

\* str.replace(old, new): left to right, non-overlapping
RECURSIVE Replace(_, _, _)
Replace(s, old, new) ==
    LET hits == {i \in 1..(Len(s) - Len(old) + 1) : SubSeq(s, i, i + Len(old) - 1) = old}
    IN  IF hits = {} THEN s
        ELSE LET i == Min(hits)
             IN  SubSeq(s, 1, i - 1) \o new
                     \o Replace(SubSeq(s, i + Len(old), Len(s)), old, new)

HexDigits == "0123456789abcdef"

IsHex(c) == \E i \in 1..16 : At(HexDigits, i) = LowerChar(c)

HexVal(c) == (CHOOSE i \in 1..16 : At(HexDigits, i) = LowerChar(c)) - 1

\* the printable ASCII characters, code 32 first (the grave accent, code 96,
\* cannot be written in a TLA+ string and is shown as "?")
AsciiPrintable ==
    " !\"#$%&'()*+,-./0123456789:;<=>?@ABCDEFGHIJKLMNOPQRSTUVWXYZ[\\]^_?abcdefghijklmnopqrstuvwxyz{|}~"

\* the character a %XX escape decodes to; a byte outside printable ASCII is
\* shown as "?" (urllib decodes it with errors='replace')
DecodeByte(hi, lo) ==
    LET code == 16 * HexVal(hi) + HexVal(lo)
    IN  IF code >= 32 /\ code <= 126 THEN At(AsciiPrintable, code - 31) ELSE "?"

\* urllib.parse.unquote: every %XX with two hex digits is decoded, anything
\* else is kept
RECURSIVE unquote(_)
unquote(s) ==
    LET hits == {i \in 1..(Len(s) - 2) :
                    At(s, i) = "%" /\ IsHex(At(s, i + 1)) /\ IsHex(At(s, i + 2))}
    IN  IF hits = {} THEN s
        ELSE LET i == Min(hits)
             IN  SubSeq(s, 1, i - 1) \o DecodeByte(At(s, i + 1), At(s, i + 2))
                     \o unquote(SubSeq(s, i + 3, Len(s)))

(***************************************************************************)
(* URL extraction of the HTTP fallback (_search_simple_method)             *)
(***************************************************************************)
\* the keys of the three quoted-field patterns "ou", "data-src", "src"
QuotedKeys == <<"ou", "data-src", "src">>

ImageWords == {"jpg", "jpeg", "png", "gif", "webp"}

\* re.findall(r'"<key>":"([^"]*)"', text, re.IGNORECASE) from position `from`:
\* the groups of the leftmost non-overlapping matches (low is text.lower(),
\* which is how IGNORECASE compares the letters of the key)
RECURSIVE FindAllQuoted(_, _, _, _)
FindAllQuoted(text, low, key, from) ==
    LET open == "\"" \o key \o "\":\""
        n == Len(open)
        quotes == {k \in from..Len(text) : At(text, k) = "\""}
        starts == {i \in quotes :
                      /\ StartsWithAt(low, i, open)
                      /\ \E j \in quotes : j >= i + n}
    IN  IF starts = {} THEN <<>>
        ELSE LET i == Min(starts)
                 j == Min({k \in quotes : k >= i + n})
             IN  <<SubSeq(text, i + n, j - 1)>> \o FindAllQuoted(text, low, key, j + 1)

\* the regex class [^"\s,]
UrlChar(c) == c # "\"" /\ c # "," /\ c \notin Whitespace

\* the length of text matched by https?:// at position i of the lowered text, or 0
SchemeLenAt(low, i) ==
    IF StartsWithAt(low, i, "http://") THEN 7
    ELSE IF StartsWithAt(low, i, "https://") THEN 8
    ELSE 0

\* the last position of the maximal run of [^"\s,] characters that starts at p
\* (p - 1 when the run is empty)
RunEnd(text, p) ==
    LET stops == {k \in p..Len(text) : ~UrlChar(At(text, k))}
    IN  IF stops = {} THEN Len(text) ELSE Min(stops) - 1

\* pattern 4: https?://[^"\s,]+\.(?:jpg|jpeg|png|gif|webp)(?:[^"\s,]*)?
\* on the (lowered) run after the scheme: some character, then a dot and an
\* image word
DottedImageRun(run) ==
    \E k \in 2..Len(run) : \E w \in ImageWords : StartsWithAt(run, k, "." \o w)

\* pattern 5: https?://[^"\s,]*(?:jpg|jpeg|png|gif|webp)[^"\s,]*
PlainImageRun(run) == \E w \in ImageWords : Contains(run, w)

RunAccepted(kind, run) == IF kind = 4 THEN DottedImageRun(run) ELSE PlainImageRun(run)

\* re.findall of pattern 4 or 5 from position `from`: both patterns are greedy
\* on both sides of the image word, so a match is the scheme and the whole run
RECURSIVE FindAllRaw(_, _, _, _)
FindAllRaw(text, low, kind, from) ==
    LET starts == {i \in from..Len(text) :
                      /\ At(low, i) = "h"
                      /\ SchemeLenAt(low, i) > 0
                      /\ LET p == i + SchemeLenAt(low, i)
                         IN  RunAccepted(kind, SubSeq(low, p, RunEnd(text, p)))}
    IN  IF starts = {} THEN <<>>
        ELSE LET i == Min(starts)
                 e == RunEnd(text, i + SchemeLenAt(low, i))
             IN  <<SubSeq(text, i, e)>> \o FindAllRaw(text, low, kind, e + 1)

\* the matches of the five patterns, in pattern order
AllMatches(text) ==
    LET low == Lower(text)
    IN  FindAllQuoted(text, low, QuotedKeys[1], 1)
            \o FindAllQuoted(text, low, QuotedKeys[2], 1)
            \o FindAllQuoted(text, low, QuotedKeys[3], 1)
            \o FindAllRaw(text, low, 4, 1) \o FindAllRaw(text, low, 5, 1)

\* the clean-up of a match: the three escapes, then percent-decoding
CleanUrl(match) ==
    unquote(Replace(Replace(Replace(match, "\\u003d", "="), "\\u0026", "&"), "\\/", "/"))

ImageExtensions == {".jpg", ".jpeg", ".png", ".gif", ".webp"}

\* a filter that refuses no marker (what the stage would be without lines 185-189)
NoSkipPatterns == {}

\* lines 185-188
skip_patterns ==
    {"gstatic.com", "ggpht.com", "googleusercontent.com", "encrypted-tbn",
     "logo", "icon", "avatar", "profile", "thumbnail"}

MinUrlLen == 20

MaxUrlLen == 2000

LengthOk(url) == Len(url) > MinUrlLen /\ Len(url) < MaxUrlLen

\* the three nested conditions under which a cleaned match is added to found_urls
AcceptUrl(url) ==
    LET low == Lower(url)
    IN  /\ StartsWith(url, "http")
        /\ \E ext \in ImageExtensions : Contains(low, ext)
        /\ ~\E skip \in skip_patterns : Contains(low, skip)
        /\ LengthOk(url)

\* found_urls after the pattern loop
FoundUrls(text) ==
    LET ms == AllMatches(text)
    IN  {u \in {CleanUrl(ms[i]) : i \in DOMAIN ms} : AcceptUrl(u)}

\* list(found_urls): a Python set of strings is iterated in an order fixed by the
\* strings' hashes, which are salted per process (PYTHONHASHSEED), so every
\* order of the set is a possible list
ListOrders(S) ==
    {f \in [1..Cardinality(S) -> S] : \A i, j \in 1..Cardinality(S) : i # j => f[i] # f[j]}

\* lst[:n] of Python: the first n elements, or all but the last -n when n < 0
SliceTo(lst, n) ==
    IF n >= 0 THEN SubSeq(lst, 1, IF n < Len(lst) THEN n ELSE Len(lst))
    ELSE SubSeq(lst, 1, Len(lst) + n)

\* the lists without the truncation of line 195
UntruncatedLists(found, mr) == ListOrders(found)

\* the values unique_urls = list(found_urls)[:max_results * 3] can take
UniqueUrlLists(found, mr) == {SliceTo(lst, mr * 3) : lst \in ListOrders(found)}

(***************************************************************************)
(* urlparse and os.path on the URLs and paths the tools see                *)
(***************************************************************************)
SchemeChars == "abcdefghijklmnopqrstuvwxyzABCDEFGHIJKLMNOPQRSTUVWXYZ0123456789+-."

IsSchemeChar(c) == \E i \in 1..Len(SchemeChars) : At(SchemeChars, i) = c

\* the first position of character c in s at or after position p, or 0
IndexFrom(s, c, p) ==
    LET hits == {i \in p..Len(s) : At(s, i) = c}
    IN  IF hits = {} THEN 0 ELSE Min(hits)

\* the last position of character c in s, or 0
LastIndex(s, c) ==
    LET hits == {i \in 1..Len(s) : At(s, i) = c}
    IN  IF hits = {} THEN 0 ELSE CHOOSE i \in hits : \A j \in hits : j <= i

\* urlsplit: the position of the colon ending a valid scheme (a letter, then
\* scheme characters), or 0
SchemeColon(url) ==
    LET i == IndexFrom(url, ":", 1)
    IN  IF /\ i > 1
           /\ LowerChar(At(url, 1)) # At(url, 1) \/ Contains(LowerLetters, At(url, 1))
           /\ \A k \in 1..(i - 1) : IsSchemeChar(At(url, k))
        THEN i ELSE 0

\* the url after its scheme
AfterScheme(url) == SubSeq(url, SchemeColon(url) + 1, Len(url))

\* the first position in s at or after p of a character that ends a netloc
\* ("/", "?" or "#"), or Len(s) + 1
NetlocStop(s, p) ==
    LET hits == {i \in p..Len(s) : At(s, i) \in {"/", "?", "#"}}
    IN  IF hits = {} THEN Len(s) + 1 ELSE Min(hits)

\* urlparse(url).netloc
Netloc(url) ==
    LET rest == AfterScheme(url)
    IN  IF StartsWith(rest, "//") THEN SubSeq(rest, 3, NetlocStop(rest, 3) - 1) ELSE ""

\* urlparse(url).path: what follows the netloc, up to the query or fragment
UrlPath(url) ==
    LET rest == AfterScheme(url)
        from == IF StartsWith(rest, "//") THEN NetlocStop(rest, 3) ELSE 1
        ends == {i \in from..Len(rest) : At(rest, i) \in {"?", "#"}}
    IN  SubSeq(rest, from, IF ends = {} THEN Len(rest) ELSE Min(ends) - 1)

\* os.path.basename
Basename(path) == SubSeq(path, LastIndex(path, "/") + 1, Len(path))

(***************************************************************************)
(* Result entries                                                          *)
(***************************************************************************)
FailedEntry(err) == [error |-> err, status |-> "failed"]

SearchEntry(url, title, source) ==
    [url |-> url, title |-> title, source |-> source, status |-> "success"]

\* the entry of a probed URL that answered 200 with an image content type
ValidatedEntry(url) ==
    LET domain == Netloc(url)
        filename == Basename(UrlPath(url))
    IN  SearchEntry(url, IF filename # "" THEN filename ELSE "Image from " \o domain,
                    "https://" \o domain)

\* the entry of a URL whose probe raised
UnvalidatedEntry(url) ==
    LET domain == Netloc(url)
    IN  SearchEntry(url, "Image from " \o domain \o " (unvalidated)", "https://" \o domain)

(***************************************************************************)
(* Inputs and environment of the search tool                               *)
(***************************************************************************)
\* the upper bound search_google_images puts on max_results
MaxResultsCap == 20

\* the largest small max_results a caller asks for (besides one above the cap)
MaxRequested == 2

\* the most thumbnails of a small result page of the browser
MaxThumbs == 2

\* the largest document height the browser reports
MaxHeight == 2

Queries == {"", " \t ", "red sunset"}

RequestedValues == (-1..MaxRequested) \cup {MaxResultsCap + 5}

\* find_element raised NoSuchElementException / the selector matched nothing
NoElement == "<no element>"

\* a lookup that raised another WebDriverException
LookupError == "<error>"

\* What the browser shows for one thumbnail: panel[k] is the src of the element
\* the k-th large-image selector finds after the click ("" when it has no src),
\* alt the thumbnail's alt text, href the href of "div.fxgdke a", and stale
\* whether the click raises.
ThumbKinds ==
    { [panel |-> <<"https://example.com/full.jpg", NoElement, NoElement, NoElement>>,
       alt |-> "cat", href |-> "https://example.com/page", stale |-> FALSE],
      [panel |-> <<"https://encrypted-tbn0.gstatic.com/images?q=tbn:x", NoElement,
                   "http://site.org/b.png", NoElement>>,
       alt |-> "", href |-> NoElement, stale |-> FALSE],
      [panel |-> <<NoElement, NoElement, "http://site.org/b.png", NoElement>>,
       alt |-> "", href |-> "", stale |-> FALSE],
      [panel |-> <<NoElement, NoElement, NoElement, NoElement>>,
       alt |-> "dog", href |-> NoElement, stale |-> FALSE],
      [panel |-> <<"", NoElement, NoElement, NoElement>>,
       alt |-> "cat", href |-> LookupError, stale |-> FALSE],
      [panel |-> <<"https://example.com/full.jpg", NoElement, NoElement, NoElement>>,
       alt |-> "cat", href |-> LookupError, stale |-> FALSE],
      [panel |-> <<"https://example.com/full.jpg", NoElement, NoElement, NoElement>>,
       alt |-> "cat", href |-> "https://example.com/page", stale |-> TRUE] }

GoodThumb ==
    [panel |-> <<"https://example.com/full.jpg", NoElement, NoElement, NoElement>>,
     alt |-> "cat", href |-> "https://example.com/page", stale |-> FALSE]

\* the result pages of the browser: every page of at most MaxThumbs thumbnails,
\* and one page with more good thumbnails than the cap
SmallPages == UNION {[1..n -> ThumbKinds] : n \in 0..MaxThumbs}

BigPage == [i \in 1..(MaxResultsCap + 2) |-> GoodThumb]

SeleniumPages == SmallPages \cup {BigPage}

\* how many thumbnails are in the document when the page has loaded
InitialLoads(page) == IF Len(page) <= MaxThumbs THEN 0..Len(page) ELSE {Len(page)}

\* the bodies Google answers a search fetch with
HttpPages ==
    { "",
      "<html><body>no results</body></html>",
      "[\"ou\":\"https://example.com/a.jpg\"]",
      "\"ou\":\"https://x.com/a.jpg\",\"src\":\"https://t0.gstatic.com/images/thumb.jpg\"",
      "<img src=\"https://encrypted-tbn0.gstatic.com/images?q=tbn:a.jpg\"> \"ou\":\"https:\\/\\/www.site.org\\/p\\u003d1.png\" http://cdn.site.org/cat%2Ejpeg",
      "\"ou\":\"https://example.com/a.jpg\",\"ou\":\"https://example.com/b.gif\",\"ou\":\"https://example.com/c.png\",\"ou\":\"https://example.com/d.webp\"" }

\* the decimal digits of a natural number (str(n))
RECURSIVE Digits(_)
Digits(n) == IF n < 10 THEN At("0123456789", n + 1) ELSE Digits(n \div 10) \o At("0123456789", (n % 10) + 1)

\* the characters urllib.parse.quote leaves alone
QuoteSafe == "abcdefghijklmnopqrstuvwxyzABCDEFGHIJKLMNOPQRSTUVWXYZ0123456789_.-~/"

UpperHex == "0123456789ABCDEF"

\* quote of one printable ASCII character
QuoteChar(c) ==
    IF Contains(QuoteSafe, c) THEN c
    ELSE LET code == 31 + (CHOOSE i \in 1..Len(AsciiPrintable) : At(AsciiPrintable, i) = c)
         IN  "%" \o At(UpperHex, (code \div 16) + 1) \o At(UpperHex, (code % 16) + 1)

\* urllib.parse.quote
RECURSIVE quote(_)
quote(s) == IF s = "" THEN "" ELSE QuoteChar(Head(s)) \o quote(Tail(s))

\* the two search URLs of the HTTP fallback, in the order of the list
search_urls(query) ==
    << "https://www.google.com/search?q=" \o quote(query) \o "&udm=2&hl=en",
       "https://www.google.com/search?q=" \o quote(query) \o "&tbm=isch&hl=en" >>

(***************************************************************************)
(* Blob names, the royalty-free filter and the blob store gateway          *)
(***************************************************************************)
ROYALTY_FREE_DOMAINS ==
    {"pexels.com", "unsplash.com", "pixabay.com", "freepik.com", "stock.adobe.com"}

\* lines 38-40: any(domain in parsed.netloc ...)
is_royalty_free_url(url) == \E domain \in ROYALTY_FREE_DOMAINS : Contains(Netloc(url), domain)

\* source.startswith(("http://", "https://"))
IsHttpUrl(source) == StartsWith(source, "http://") \/ StartsWith(source, "https://")

\* lines 571 and 694: the source is refused by the royalty-free filter
Blocked(source) == IsHttpUrl(source) /\ is_royalty_free_url(source)

\* a whitelist that keeps png only
OnlyPng == {"png"}

\* lines 586 and 714: the extensions kept for a URL source
AllowedExtensions == {"png", "jpg", "jpeg", "gif", "webp"}

\* s.split('.')[-1]
AfterLastDot(s) == SubSeq(s, LastIndex(s, ".") + 1, Len(s))

\* os.path.splitext: the position of the dot that starts the extension, or 0.
\* It is the last dot of the last path component, unless only dots precede it
\* in that component.
ExtDot(path) ==
    LET sep == LastIndex(path, "/")
        dot == LastIndex(path, ".")
    IN  IF dot > sep /\ \E k \in (sep + 1)..(dot - 1) : At(path, k) # "." THEN dot ELSE 0

\* os.path.splitext(path)[0] and [1]
SplitRoot(path) == IF ExtDot(path) = 0 THEN path ELSE SubSeq(path, 1, ExtDot(path) - 1)

SplitExt(path) == IF ExtDot(path) = 0 THEN "" ELSE SubSeq(path, ExtDot(path), Len(path))

\* "{:02d}" and "{:03d}"
Pad2(n) == IF n < 10 THEN "0" \o Digits(n) ELSE Digits(n)

Pad3(n) == IF n < 10 THEN "00" \o Digits(n) ELSE IF n < 100 THEN "0" \o Digits(n) ELSE Digits(n)

\* datetime.now().strftime("%Y%m%d_%H%M%S"), t seconds after 2026-11-01 10:00:00
\* (t < 3600)
Timestamp(t) == "20261101_10" \o Pad2(t \div 60) \o Pad2(t % 60)

\* lines 581-593: the extension save_images_to_azure gives the blob
SaveExtension(source, exists) ==
    IF IsHttpUrl(source)
    THEN IF Contains(UrlPath(source), ".")
         THEN LET extension == Lower(AfterLastDot(UrlPath(source)))
              IN  IF extension \in AllowedExtensions THEN extension ELSE "png"
         ELSE "png"
    ELSE IF exists /\ SplitExt(source) # "" THEN Lower(Tail(SplitExt(source)))
    ELSE "png"

\* line 595: f"{blob_prefix}_{i+1:03d}_{timestamp}.{extension}", i counted from 1 here
SaveBlobName(prefix, i, t, source, exists) ==
    prefix \o "_" \o Pad3(i) \o "_" \o Timestamp(t) \o "." \o SaveExtension(source, exists)

\* lines 703-721: the name upload_single_image_to_azure generates
SingleBlobName(source, t) ==
    IF IsHttpUrl(source)
    THEN LET base == Basename(UrlPath(source))
             filename == IF base # "" THEN base ELSE "image"
             name_part == SplitRoot(filename)
             ext == Lower(AfterLastDot(filename))
             extension == IF Contains(filename, ".") /\ ext \in AllowedExtensions
                          THEN ext ELSE "png"
         IN  name_part \o "_" \o Timestamp(t) \o "." \o extension
    ELSE LET filename == Basename(source)
             name_part == IF SplitRoot(filename) # "" THEN SplitRoot(filename) ELSE "image"
             ext == IF SplitExt(filename) = "" THEN "" ELSE Lower(Tail(SplitExt(filename)))
             extension == IF ext # "" THEN ext ELSE "png"
         IN  name_part \o "_" \o Timestamp(t) \o "." \o extension

CONTAINER_NAME == "image-mcp"

\* line 448
BlobUrl(blob_name) ==
    "https://account.blob.core.windows.net/" \o CONTAINER_NAME \o "/" \o blob_name \o "?sas"

\* How the blob store answers one upload_to_azure_blob: the connection fails,
\* upload_blob fails, the SAS token cannot be generated, or all succeed.
GatewayOutcomes == {"connect_error", "put_error", "sas_error", "ok"}

\* lines 414-446: the blob-store operations performed under a gateway outcome
GatewayOps(gw) ==
    IF gw = "connect_error" THEN <<"connect">>
    ELSE IF gw = "put_error" THEN <<"connect", "create_container", "upload_blob">>
    ELSE <<"connect", "create_container", "upload_blob", "generate_blob_sas">>

\* whether upload_blob stored the data
BlobWritten(gw) == gw \in {"sas_error", "ok"}

\* lines 413-463: the dictionary upload_to_azure_blob returns
upload_to_azure_blob(data, blob_name, gw) ==
    IF gw = "ok"
    THEN [status |-> "success", filename |-> blob_name, blob_url |-> BlobUrl(blob_name),
          markdown |-> "![" \o blob_name \o "](" \o BlobUrl(blob_name) \o ")",
          size_bytes |-> Len(data)]
    ELSE [status |-> "failed", error |-> "Failed to upload to Azure Blob Storage: " \o gw]

\* an outcome that leaves size_bytes out
OutcomeWithoutSize(source, upload_result) ==
    IF upload_result.status = "success"
    THEN [source |-> source, blob_url |-> upload_result.blob_url,
          markdown |-> upload_result.markdown, filename |-> upload_result.filename,
          status |-> "success"]
    ELSE [source |-> source, error |-> upload_result.error, status |-> "failed"]

\* lines 635-650 and 749-763: the outcome built from an upload result
OutcomeOf(source, upload_result) ==
    IF upload_result.status = "success"
    THEN [source |-> source, blob_url |-> upload_result.blob_url,
          markdown |-> upload_result.markdown, filename |-> upload_result.filename,
          size_bytes |-> upload_result.size_bytes, status |-> "success"]
    ELSE [source |-> source, error |-> upload_result.error, status |-> "failed"]

FailedOutcome(source, err) == [source |-> source, error |-> err, status |-> "failed"]

PolicyError == "Royalty-free image sources are not allowed."

\* a check that lets every content type through
AnyContentType(content_type) == TRUE

\* lines 606 and 731: content_type.startswith('image/')
IsImageType(content_type) == StartsWith(content_type, "image/")

\* What a GET of an image source answers: an exception (network error or
\* raise_for_status), or a content type and a body.
ContentTypes == {"image/png", "text/html", ""}

Payloads == {"PNGDATA", ""}

FetchOutcomes ==
    {[kind |-> "error", content_type |-> "", content |-> ""]}
        \cup {[kind |-> "ok", content_type |-> ct, content |-> b] :
                 ct \in ContentTypes, b \in Payloads}

\* a collaborator call of item i, for the log
Call(i, op, detail) == [item |-> i, op |-> op, detail |-> detail]

GatewayCalls(i, gw) == [k \in 1..Len(GatewayOps(gw)) |-> Call(i, GatewayOps(gw)[k], gw)]

\* an exception on its way to a handler
Exception(msg) == [exception |-> msg]

IsException(x) == "exception" \in DOMAIN x

\* The effect of the body of the try block that handles one source, given its
\* blob name: entries is the outcome (or the exception raised by the GET or by
\* raise_for_status), calls the collaborator calls made, written whether a blob
\* was stored, and data the bytes offered to the blob store.  missing is the
\* error text for a source that is neither URL nor file, blocked the outcome
\* of the policy check of lines 571 and 694.
HandleSource(i, source, blocked, name, files, fetch, gw, missing) ==
    IF blocked
    THEN [entries |-> <<FailedOutcome(source, PolicyError)>>, calls |-> <<>>,
          written |-> FALSE, data |-> ""]
    ELSE IF IsHttpUrl(source)
    THEN IF fetch.kind = "error"
         THEN [entries |-> <<Exception("fetch failed")>>,
               calls |-> <<Call(i, "fetch", "error")>>, written |-> FALSE, data |-> ""]
         ELSE IF ~IsImageType(fetch.content_type)
         THEN [entries |-> <<FailedOutcome(source, "Not an image (got "
                                                       \o fetch.content_type \o ")")>>,
               calls |-> <<Call(i, "fetch", fetch.content_type)>>,
               written |-> FALSE, data |-> ""]
         ELSE [entries |-> <<OutcomeOf(source,
                                       upload_to_azure_blob(fetch.content, name, gw))>>,
               calls |-> <<Call(i, "fetch", fetch.content_type)>> \o GatewayCalls(i, gw),
               written |-> BlobWritten(gw), data |-> fetch.content]
    ELSE IF source \in DOMAIN files
    THEN [entries |-> <<OutcomeOf(source, upload_to_azure_blob(files[source], name, gw))>>,
          calls |-> GatewayCalls(i, gw), written |-> BlobWritten(gw),
          data |-> files[source]]
    ELSE [entries |-> <<FailedOutcome(source, missing)>>, calls |-> <<>>,
          written |-> FALSE, data |-> ""]

\* the ways the handling of one source can go, over the answers of the web
\* server and of the blob store
SourceSteps(i, source, blocked, name, files, missing) ==
    {HandleSource(i, source, blocked, name, files, fetch, gw, missing) :
         fetch \in FetchOutcomes, gw \in GatewayOutcomes}

(***************************************************************************)
(* State                                                                   *)
(***************************************************************************)
VARIABLES
    tool,               \* the tool the caller invoked
    pc,                 \* the position of the running tool
    search_query,       \* argument of search_google_images
    requested,          \* argument max_results as the caller gave it
    max_results,        \* the local max_results (clamped on line 517)
    SELENIUM_AVAILABLE, \* whether the selenium import succeeded
    driver,             \* GoogleImageSearcher.driver: "None" or "session"
    sessions_started,   \* browser sessions created by webdriver.Chrome
    quit_calls,         \* calls of driver.quit()
    dom,                \* the browser's document: thumbnails, loaded, height, show_more
    img_elements,       \* number of elements find_elements returned (img_elements)
    pos,                \* index in img_elements of the thumbnail the for loop is at
    count,              \* local count of search_images_selenium
    page_height,        \* local page_height
    image_results,      \* local image_results
    sel_results,        \* what search_images_selenium returned
    url_idx,            \* index in search_urls of the next search fetch
    html_content,       \* local html_content of _search_simple_method ("None" if unset)
    found_urls,         \* local found_urls
    unique_urls,        \* local unique_urls
    probe_i,            \* index in unique_urls of the next probe
    valid_results,      \* local valid_results
    http_log,           \* the HTTP requests issued so far and their answers, in order
    results,            \* local results of the running tool
    response,           \* what the tool returned to its caller
    raised,             \* whether an exception left the tool
    runs,               \* the unique_urls of the runs of the extraction stage so far
    image_sources,      \* argument of save_images_to_azure
    blob_prefix,        \* argument of save_images_to_azure
    src_i,              \* index (from 1) of the source the loop of line 568 is at
    image_source,       \* argument of upload_single_image_to_azure
    blob_name,          \* argument blob_name ("None" when not given)
    filename,           \* argument of download_image_from_azure
    download_path,      \* argument of download_image_from_azure
    now,                \* the clock, in seconds
    blobs,              \* the container: blob name -> bytes
    fs,                 \* the local files: path -> bytes
    calls,              \* the collaborator calls of the running upload tool, in order
    uploads,            \* the blobs upload_blob stored since the start, in order
    ncalls,             \* the tool calls made so far, the running one included
    other_done          \* the steps another request on the same event loop has made

uploadVars ==
    <<image_sources, blob_prefix, src_i, image_source, blob_name, filename,
      download_path, now, blobs, fs, calls, uploads, ncalls, other_done>>

inputVars == <<tool, search_query, requested, SELENIUM_AVAILABLE, uploadVars>>

selVars ==
    <<driver, sessions_started, quit_calls, dom, img_elements, pos, count, page_height,
      image_results, sel_results>>

simpleVars == <<url_idx, html_content, found_urls, unique_urls, probe_i, valid_results>>

vars ==
    <<tool, pc, search_query, requested, max_results, SELENIUM_AVAILABLE, driver,
      sessions_started, quit_calls, dom, img_elements, pos, count, page_height,
      image_results, sel_results, url_idx, html_content, found_urls, unique_urls,
      probe_i, valid_results, http_log, results, response, raised, runs,
      image_sources, blob_prefix, src_i, image_source, blob_name, filename,
      download_path, now, blobs, fs, calls, uploads, ncalls, other_done>>

searchVars ==
    <<search_query, requested, max_results, SELENIUM_AVAILABLE, driver, sessions_started,
      quit_calls, dom, img_elements, pos, count, page_height, image_results,
      sel_results, url_idx, html_content, found_urls, unique_urls, probe_i,
      valid_results, http_log>>

NoDom == [thumbs |-> <<>>, loaded |-> 0, height |-> 0, show_more |-> FALSE]

\* the locals of the two strategies before they run
SearchLocalsInit ==
    /\ driver = "None" /\ sessions_started = 0 /\ quit_calls = 0 /\ dom = NoDom
    /\ img_elements = 0 /\ pos = 0 /\ count = 0 /\ page_height = 0
    /\ image_results = <<>> /\ sel_results = <<>>
    /\ url_idx = 1 /\ html_content = "None" /\ found_urls = {} /\ unique_urls = <<>>
    /\ probe_i = 1
    /\ valid_results = <<>>

\* the files on the local disk before the call
FsInit == ("./Temp/cat.png" :> "PNGDATA") @@ ("./Temp/notes.TXT" :> "hello")

\* the container before the call
BlobsInit == ("cat.png" :> "OLDCAT")

\* the state of the upload tools while another tool runs
UploadIdle ==
    /\ image_sources = <<>> /\ blob_prefix = "image" /\ src_i = 1
    /\ image_source = "" /\ blob_name = "None"
    /\ filename = "" /\ download_path = ""
    /\ now = 0 /\ blobs = BlobsInit /\ fs = FsInit /\ calls = <<>>
    /\ uploads = <<>> /\ ncalls = 1 /\ other_done = 0

\* the state of the search tool while another tool runs
SearchIdle ==
    /\ search_query = "" /\ requested = 0 /\ max_results = 0
    /\ SELENIUM_AVAILABLE = FALSE
    /\ SearchLocalsInit
    /\ http_log = <<>>

InitSearch ==
    /\ tool = "search_google_images"
    /\ pc = "call"
    /\ search_query \in Queries
    /\ requested \in RequestedValues
    /\ max_results = requested
    /\ SELENIUM_AVAILABLE \in BOOLEAN
    /\ SearchLocalsInit
    /\ http_log = <<>>
    /\ results = <<>>
    /\ response = <<>>
    /\ raised = FALSE
    /\ runs = <<>>
    /\ UploadIdle

(***************************************************************************)
(* search_google_images and GoogleImageSearcher.search_images              *)
(***************************************************************************)
\* `not search_query`, the check without the strip
EmptyQueryNoStrip(q) == q = ""

\* line 513: `not search_query.strip()`
EmptyQuery(q) == Strip(q) = ""

\* max_results left as the caller gave it
NoClamp(m) == m

\* line 517: min(max_results, 20)
ClampMaxResults(m) == IF m < MaxResultsCap THEN m ELSE MaxResultsCap

\* lines 512-523: the empty-query check and the clamp
SearchGoogleImages ==
    /\ tool = "search_google_images" /\ pc = "call"
    /\ IF EmptyQuery(search_query)
       THEN /\ response' = <<FailedEntry("Search query cannot be empty")>>
            /\ pc' = "done"
            /\ UNCHANGED max_results
       ELSE /\ max_results' = ClampMaxResults(max_results)
            /\ pc' = "search_images"
            /\ UNCHANGED response
    /\ UNCHANGED <<inputVars, selVars, simpleVars, http_log, results, raised, runs>>

\* lines 389-392 and 401: the browser strategy first when selenium is importable
SearchImages ==
    /\ pc = "search_images"
    /\ pc' = IF SELENIUM_AVAILABLE THEN "setup_driver" ELSE "simple_fetch"
    /\ UNCHANGED <<inputVars, max_results, selVars, simpleVars, http_log, results,
                   response, raised, runs>>

(***************************************************************************)
(* GoogleImageSearcher.search_images_selenium                              *)
(***************************************************************************)
\* an exit that goes past the finally block
FinallySkipped == "after_selenium"

\* Where an early return (line 255) or the handler of line 372 leaves the
\* function: both are inside the try, so the finally block of line 377 runs.
FinallyTarget == "sel_finally"

\* lines 84-113 and 254-255: _setup_driver.  webdriver.Chrome may fail (no
\* session exists), or succeed and set_window_size fail (the session exists and
\* self.driver holds it); both make _setup_driver return False.
SetupDriver ==
    /\ pc = "setup_driver"
    /\ \E outcome \in {"no_chromedriver", "window_size_error", "ok"} :
          /\ driver' = IF outcome = "no_chromedriver" THEN "None" ELSE "session"
          /\ sessions_started' =
                 IF outcome = "no_chromedriver" THEN sessions_started
                 ELSE sessions_started + 1
          /\ IF outcome = "ok"
             THEN pc' = "navigate" /\ UNCHANGED sel_results
             ELSE /\ sel_results' = <<FailedEntry("Failed to setup Chrome driver")>>
                  /\ pc' = FinallyTarget
    /\ UNCHANGED <<inputVars, max_results, quit_calls, dom, img_elements, pos, count,
                   page_height, image_results, simpleVars, http_log, results, response,
                   raised, runs>>

\* lines 257-279: driver.get, the consent dialog (clicked, or TimeoutException
\* passed over), and the initialisation of the loop's locals
Navigate ==
    /\ pc = "navigate"
    /\ \/ \* driver.get or the consent click raised: handler of line 372
          /\ sel_results' = <<FailedEntry("Selenium Google Images search failed")>>
          /\ pc' = FinallyTarget
          /\ UNCHANGED <<dom, count, page_height, image_results>>
       \/ \E page \in SeleniumPages : \E k \in InitialLoads(page), sm \in BOOLEAN :
             /\ dom' = [thumbs |-> page, loaded |-> k, height |-> 1, show_more |-> sm]
             /\ image_results' = <<>>
             /\ count' = 0
             /\ page_height' = 0
             /\ pc' = "sel_loop"
             /\ UNCHANGED sel_results
    /\ UNCHANGED <<inputVars, max_results, driver, sessions_started, quit_calls,
                   img_elements, pos, simpleVars, http_log, results, response, raised, runs>>

\* lines 281-293: the while condition and find_elements (the three thumbnail
\* selectors find the thumbnails loaded in the document)
SelLoop ==
    /\ pc = "sel_loop"
    /\ IF count >= max_results
       THEN pc' = "sel_return" /\ UNCHANGED <<img_elements, pos>>
       ELSE \/ \* find_elements raised: handler of line 365 breaks
               pc' = "sel_return" /\ UNCHANGED <<img_elements, pos>>
            \/ /\ img_elements' = dom.loaded
               /\ pos' = count + 1
               /\ pc' = IF dom.loaded = 0 THEN "sel_return" ELSE "sel_for"
    /\ UNCHANGED <<inputVars, max_results, driver, sessions_started, quit_calls, dom,
                   count, page_height, image_results, sel_results, simpleVars, http_log,
                   results, response, raised, runs>>

\* lines 312-319: the element of the first selector that finds one
LargeImg(panel) ==
    LET found == {k \in 1..4 : panel[k] # NoElement}
    IN  IF found = {} THEN NoElement ELSE panel[Min(found)]

\* line 323
Qualifies(img_url) ==
    /\ img_url # ""
    /\ StartsWith(img_url, "http")
    /\ ~Contains(img_url, "encrypted")
    /\ ~Contains(img_url, "gstatic")

\* lines 299-347: whether processing thumbnail t reaches the append
Accepted(t) ==
    /\ ~t.stale
    /\ LargeImg(t.panel) # NoElement
    /\ Qualifies(LargeImg(t.panel))
    /\ t.href # LookupError

\* lines 325-340
ThumbEntry(t, n) ==
    SearchEntry(LargeImg(t.panel),
                IF t.alt # "" THEN t.alt ELSE "Image " \o Digits(n + 1),
                IF t.href \in {NoElement, ""} THEN "Unknown" ELSE t.href)

\* lines 295-347: one step of `for img in img_elements[count:]`
SelFor ==
    /\ pc = "sel_for"
    /\ IF pos > img_elements \/ count >= max_results
       THEN pc' = "sel_paginate" /\ UNCHANGED <<pos, count, image_results>>
       ELSE LET t == dom.thumbs[pos]
            IN  /\ image_results' =
                       IF Accepted(t) THEN Append(image_results, ThumbEntry(t, count))
                       ELSE image_results
                /\ count' = IF Accepted(t) THEN count + 1 ELSE count
                /\ pos' = pos + 1
                /\ pc' = "sel_for"
    /\ UNCHANGED <<inputVars, max_results, driver, sessions_started, quit_calls, dom,
                   img_elements, page_height, sel_results, simpleVars, http_log, results,
                   response, raised, runs>>

\* the documents a scroll or a click on "Show more" can leave: more thumbnails
\* loaded or not, the document taller or not, the control present or not
AfterLoad(d) ==
    { [d EXCEPT !.loaded = n, !.height = h, !.show_more = sm] :
        n \in d.loaded..Len(d.thumbs),
        h \in {d.height, IF d.height < MaxHeight THEN d.height + 1 ELSE d.height},
        sm \in BOOLEAN }

\* lines 349-363: scroll when the document grew, else click "Show more", else stop
SelPaginate ==
    /\ pc = "sel_paginate"
    /\ IF count >= max_results
       THEN pc' = "sel_loop" /\ UNCHANGED <<dom, page_height>>
       ELSE \/ \* execute_script or show_more.click raised: handler of line 365
               pc' = "sel_return" /\ UNCHANGED <<dom, page_height>>
            \/ /\ dom.height > page_height
               /\ page_height' = dom.height
               /\ dom' \in AfterLoad(dom)
               /\ pc' = "sel_loop"
            \/ /\ dom.height <= page_height
               /\ dom.show_more
               /\ dom' \in AfterLoad(dom)
               /\ pc' = "sel_loop"
               /\ UNCHANGED page_height
            \/ /\ dom.height <= page_height
               /\ ~dom.show_more
               /\ pc' = "sel_return"
               /\ UNCHANGED <<dom, page_height>>
    /\ UNCHANGED <<inputVars, max_results, driver, sessions_started, quit_calls,
                   img_elements, pos, count, image_results, sel_results, simpleVars,
                   http_log, results, response, raised, runs>>

\* lines 369-370: return image_results
SelReturn ==
    /\ pc = "sel_return"
    /\ sel_results' = image_results
    /\ pc' = "sel_finally"
    /\ UNCHANGED <<inputVars, max_results, driver, sessions_started, quit_calls, dom,
                   img_elements, pos, count, page_height, image_results, simpleVars,
                   http_log, results, response, raised, runs>>

\* lines 377-383: the finally block (an exception of quit() is swallowed); the
\* locals and the document end with the call
SelFinally ==
    /\ pc = "sel_finally"
    /\ quit_calls' = IF driver # "None" THEN quit_calls + 1 ELSE quit_calls
    /\ driver' = "None"
    /\ dom' = NoDom
    /\ img_elements' = 0 /\ pos' = 0 /\ count' = 0 /\ page_height' = 0
    /\ image_results' = <<>>
    /\ pc' = "after_selenium"
    /\ UNCHANGED <<inputVars, max_results, sessions_started, sel_results, simpleVars,
                   http_log, results, response, raised, runs>>

\* `results` alone, without the test for a success entry
AnyResults(r) == r # <<>>

\* line 393: `results and any(r.get("status") == "success" for r in results)`
HasSuccess(r) == r # <<>> /\ \E i \in DOMAIN r : r[i].status = "success"

\* lines 392-401: keep the browser's list if it holds a success, else fall back
AfterSelenium ==
    /\ pc = "after_selenium"
    /\ IF HasSuccess(sel_results)
       THEN results' = sel_results /\ pc' = "finish"
       ELSE pc' = "simple_fetch" /\ UNCHANGED results
    /\ UNCHANGED <<inputVars, max_results, selVars, simpleVars, http_log, response, raised, runs>>

(***************************************************************************)
(* GoogleImageSearcher._search_simple_method                               *)
(***************************************************************************)
FetchFailed == FailedEntry("Failed to fetch Google Images page with any URL format")

SimpleFailed == FailedEntry("Simple search method failed")

\* lines 141-156: the search fetches.  A fetch fails (network error, timeout,
\* raise_for_status) or answers with a body; `if not html_content` also takes
\* an empty body for a failure.  Creating the client can raise (line 245).
SimpleFetch ==
    /\ pc = "simple_fetch"
    /\ \/ /\ url_idx = 1
          /\ results' = <<SimpleFailed>>
          /\ pc' = "finish"
          /\ UNCHANGED <<url_idx, html_content, http_log>>
       \/ /\ http_log' = Append(http_log, [method |-> "GET",
                                           url |-> search_urls(search_query)[url_idx],
                                           answer |-> "exception"])
          /\ IF url_idx < Len(search_urls(search_query))
             THEN url_idx' = url_idx + 1 /\ pc' = "simple_fetch" /\ UNCHANGED results
             ELSE results' = <<FetchFailed>> /\ pc' = "finish" /\ UNCHANGED url_idx
          /\ UNCHANGED html_content
       \/ \E body \in HttpPages :
             /\ http_log' = Append(http_log, [method |-> "GET",
                                              url |-> search_urls(search_query)[url_idx],
                                              answer |-> "ok"])
             /\ html_content' = body
             /\ IF body = ""
                THEN results' = <<FetchFailed>> /\ pc' = "finish"
                ELSE pc' = "simple_extract" /\ UNCHANGED results
             /\ UNCHANGED url_idx
    /\ UNCHANGED <<inputVars, max_results, selVars, found_urls, unique_urls, probe_i,
                   valid_results, response, raised, runs>>

\* lines 158-198: the extraction stage, and the creation of the probe client,
\* which can raise (line 245)
SimpleExtract ==
    /\ pc = "simple_extract"
    /\ found_urls' = FoundUrls(html_content)
    /\ unique_urls' \in UniqueUrlLists(found_urls', max_results)
    /\ valid_results' = <<>>
    /\ probe_i' = 1
    /\ \/ pc' = "simple_probe" /\ UNCHANGED results
       \/ results' = <<SimpleFailed>> /\ pc' = "finish"
    /\ UNCHANGED <<inputVars, max_results, selVars, url_idx, html_content, http_log,
                   response, raised, runs>>

\* what a HEAD probe can answer: 200 with an image content type, 200 with
\* another content type, another status, or an exception (network, timeout)
ProbeOutcomes == {"image", "not_image", "not_200", "exception"}

\* every probe that confirms no image leaves an unvalidated entry
KeepEveryProbed(valid, url, outcome, mr) ==
    IF outcome = "image" THEN Append(valid, ValidatedEntry(url))
    ELSE IF Len(valid) < mr THEN Append(valid, UnvalidatedEntry(url))
    ELSE valid

\* lines 204-240: valid_results after the probe of url answered with outcome
AfterProbe(valid, url, outcome, mr) ==
    IF outcome = "image" THEN Append(valid, ValidatedEntry(url))
    ELSE IF outcome = "exception" /\ Len(valid) < mr THEN Append(valid, UnvalidatedEntry(url))
    ELSE valid

\* line 201: the probe loop stops once max_results entries are collected
ProbeLoopDone(valid, mr) == Len(valid) >= mr

\* lines 199-243: one step of the probe loop, or the return of valid_results
SimpleProbe ==
    /\ pc = "simple_probe"
    /\ IF probe_i > Len(unique_urls) \/ ProbeLoopDone(valid_results, max_results)
       THEN /\ results' = valid_results
            /\ pc' = "finish"
            /\ UNCHANGED <<probe_i, valid_results, http_log>>
       ELSE \E outcome \in ProbeOutcomes :
               /\ http_log' = Append(http_log, [method |-> "HEAD",
                                                url |-> unique_urls[probe_i],
                                                answer |-> outcome])
               /\ valid_results' =
                      AfterProbe(valid_results, unique_urls[probe_i], outcome, max_results)
               /\ probe_i' = probe_i + 1
               /\ pc' = "simple_probe"
               /\ UNCHANGED results
    /\ UNCHANGED <<inputVars, max_results, selVars, url_idx, html_content, found_urls,
                   unique_urls, response, raised, runs>>

\* the list as search_images returned it
NoConversion(r) == r

\* lines 527-534: an empty list becomes the "No images found" entry
FinalResponse(r) ==
    IF r = <<>> THEN <<FailedEntry("No images found for the search query")>> ELSE r

Finish ==
    /\ pc = "finish"
    /\ response' = FinalResponse(results)
    /\ pc' = "done"
    /\ UNCHANGED <<inputVars, max_results, selVars, simpleVars, http_log, results, raised,
                   runs>>

(***************************************************************************)
(* save_images_to_azure, upload_single_image_to_azure,                     *)
(* download_image_from_azure                                               *)
(***************************************************************************)
\* the most sources of one save_images_to_azure call
MaxSources == 2

\* the last second the clock reaches
MaxClock == 1

\* the sources given to save_images_to_azure
BatchSources ==
    { "https://images.unsplash.com/photo.jpg",
      "https://Images.Unsplash.com/photo.jpg",
      "http://site.com/pic.JPG",
      "./Temp/cat.png",
      "./Temp/missing.gif" }

\* the sources given to upload_single_image_to_azure
Sources ==
    BatchSources \cup
        { "HTTPS://unsplash.com/a.jpg",
          "https://site.com/gallery/view?id=7",
          "http://site.com/scan.BMP",
          "./Temp/notes.TXT" }

SourceLists == UNION {[1..n -> BatchSources] : n \in 0..MaxSources}

\* the clock after a step: time passes or not
Later(t) == {t} \cup (IF t < MaxClock THEN {t + 1} ELSE {})

InitSave ==
    /\ tool = "save_images_to_azure"
    /\ pc = "call"
    /\ image_sources \in SourceLists
    /\ blob_prefix = "image"
    /\ src_i = 1
    /\ image_source = "" /\ blob_name = "None"
    /\ filename = "" /\ download_path = ""
    /\ now = 0 /\ blobs = BlobsInit /\ fs = FsInit /\ calls = <<>>
    /\ uploads = <<>> /\ ncalls = 1 /\ other_done = 0
    /\ SearchIdle
    /\ results = <<>> /\ response = <<>> /\ raised = FALSE /\ runs = <<>>

InitUploadSingle ==
    /\ tool = "upload_single_image_to_azure"
    /\ pc = "call"
    /\ image_source \in Sources
    /\ blob_name \in {"None", "cat.png"}
    /\ image_sources = <<>> /\ blob_prefix = "image" /\ src_i = 1
    /\ filename = "" /\ download_path = ""
    /\ now = 0 /\ blobs = BlobsInit /\ fs = FsInit /\ calls = <<>>
    /\ uploads = <<>> /\ ncalls = 1 /\ other_done = 0
    /\ SearchIdle
    /\ results = <<>> /\ response = <<>> /\ raised = FALSE /\ runs = <<>>

InitDownload ==
    /\ tool = "download_image_from_azure"
    /\ pc = "call"
    /\ filename \in {"cat.png", "missing.png"}
    /\ download_path \in {"./Temp/out.png", "./Temp/cat.png", "out.png"}
    /\ image_sources = <<>> /\ blob_prefix = "image" /\ src_i = 1
    /\ image_source = "" /\ blob_name = "None"
    /\ now = 0 /\ blobs = BlobsInit /\ fs = FsInit /\ calls = <<>>
    /\ uploads = <<>> /\ ncalls = 1 /\ other_done = 0
    /\ SearchIdle
    /\ results = <<>> /\ response = <<>> /\ raised = FALSE /\ runs = <<>>

\* line 433: what upload_blob stored under a name, whether the name was generated
\* by the tool, and the outcome the tool built for the source
Stored(name, data, auto, outcome) ==
    [blob |-> name, data |-> data, auto |-> auto, outcome |-> outcome]

\* lines 562-566: an empty list of sources is answered with one error entry
SaveCall ==
    /\ tool = "save_images_to_azure" /\ pc = "call"
    /\ IF image_sources = <<>>
       THEN /\ response' = <<FailedEntry("No image sources provided")>>
            /\ pc' = "done"
       ELSE /\ pc' = "save_loop"
            /\ UNCHANGED response
    /\ results' = <<>>
    /\ UNCHANGED <<tool, searchVars, uploadVars, raised, runs>>

\* a handler that logs the error and appends nothing
SaveItemDropsError(source, x) == IF IsException(x) THEN <<>> ELSE <<x>>

\* lines 652-659: the handler around one source
SaveItemHandler(source, x) ==
    IF IsException(x)
    THEN <<FailedOutcome(source, "Error processing " \o source \o ": " \o x.exception)>>
    ELSE <<x>>

\* lines 568-659: one source of the loop
SaveItem ==
    /\ pc = "save_loop"
    /\ src_i <= Len(image_sources)
    /\ LET source == image_sources[src_i]
           name == SaveBlobName(blob_prefix, src_i, now, source, source \in DOMAIN fs)
       IN  \E step \in SourceSteps(src_i, source, Blocked(source), name, fs,
                                    "File not found and not a valid URL") :
              /\ results' = results \o SaveItemHandler(source, step.entries[1])
              /\ calls' = calls \o step.calls
              /\ blobs' = IF step.written THEN (name :> step.data) @@ blobs ELSE blobs
              /\ uploads' = IF step.written
                            THEN Append(uploads, Stored(name, step.data, TRUE, step.entries[1]))
                            ELSE uploads
    /\ src_i' = src_i + 1
    /\ now' \in Later(now)
    /\ UNCHANGED <<tool, pc, searchVars, image_sources, blob_prefix, image_source,
                   blob_name, filename, download_path, fs, ncalls, other_done, response, raised, runs>>

\* lines 661-665: return results
SaveReturn ==
    /\ pc = "save_loop"
    /\ src_i > Len(image_sources)
    /\ response' = results
    /\ pc' = "done"
    /\ UNCHANGED <<tool, searchVars, uploadVars, results, raised, runs>>

\* the body without its handler: the exception leaves the tool
UploadSingleNoHandler(source, x) == x

\* lines 765-772: the handler of upload_single_image_to_azure
UploadSingleHandler(source, x) ==
    IF IsException(x)
    THEN FailedOutcome(source, "Failed to upload image: " \o x.exception)
    ELSE x

\* lines 692-772
UploadSingle ==
    /\ tool = "upload_single_image_to_azure" /\ pc = "call"
    /\ LET name == IF blob_name = "None" THEN SingleBlobName(image_source, now)
                   ELSE blob_name
       IN  \E step \in SourceSteps(1, image_source, Blocked(image_source), name, fs,
                                    "File not found") :
            LET out == UploadSingleHandler(image_source, step.entries[1])
            IN
              /\ response' = IF IsException(out) THEN <<>> ELSE <<out>>
              /\ raised' = IsException(out)
              /\ calls' = calls \o step.calls
              /\ blobs' = IF step.written THEN (name :> step.data) @@ blobs ELSE blobs
              /\ uploads' = IF step.written
                            THEN Append(uploads, Stored(name, step.data, blob_name = "None",
                                                        step.entries[1]))
                            ELSE uploads
    /\ now' \in Later(now)
    /\ pc' = "done"
    /\ UNCHANGED <<tool, searchVars, image_sources, blob_prefix, src_i, image_source,
                   blob_name, filename, download_path, fs, ncalls, other_done, results, runs>>

\* os.path.dirname
Dirname(path) ==
    LET head == SubSeq(path, 1, LastIndex(path, "/"))
        keep == {i \in 1..Len(head) : At(head, i) # "/"}
    IN  IF keep = {} THEN head
        ELSE SubSeq(head, 1, CHOOSE j \in keep : \A k \in keep : k <= j)

\* lines 465-488: download_from_azure_blob.  The connection may fail; makedirs
\* of an empty directory name raises; the file is opened for writing before the
\* blob is read, and reading a missing blob raises.
download_from_azure_blob(name, path, store, connected) ==
    IF ~connected \/ Dirname(path) = "" \/ name \notin DOMAIN store
    THEN [status |-> "failed", error |-> "Failed to download from Azure Blob Storage"]
    ELSE [status |-> "success", filename |-> name, download_path |-> path]

\* the local files after download_from_azure_blob
FilesAfterDownload(name, path, store, files, connected) ==
    IF ~connected \/ Dirname(path) = "" THEN files
    ELSE IF name \notin DOMAIN store THEN (path :> "") @@ files
    ELSE (path :> store[name]) @@ files

\* lines 468-475: the collaborator calls of download_from_azure_blob
DownloadCalls(name, path, store, connected) ==
    IF ~connected THEN <<Call(1, "connect", "error")>>
    ELSE IF Dirname(path) = ""
    THEN <<Call(1, "connect", "ok"), Call(1, "makedirs", "error")>>
    ELSE <<Call(1, "connect", "ok"), Call(1, "makedirs", "ok"), Call(1, "open", path),
           Call(1, "download_blob", IF name \in DOMAIN store THEN "ok" ELSE "error")>>

\* lines 792-816
DownloadImage ==
    /\ tool = "download_image_from_azure" /\ pc = "call"
    /\ \E connected \in BOOLEAN :
          LET result == download_from_azure_blob(filename, download_path, blobs, connected)
          IN  /\ response' =
                     IF result.status = "success"
                     THEN <<[filename |-> filename, download_path |-> download_path,
                             status |-> "success"]>>
                     ELSE <<[filename |-> filename, status |-> "failed",
                             error |-> result.error]>>
              /\ fs' = FilesAfterDownload(filename, download_path, blobs, fs, connected)
              /\ calls' = calls \o DownloadCalls(filename, download_path, blobs, connected)
    /\ pc' = "done"
    /\ UNCHANGED <<tool, searchVars, image_sources, blob_prefix, src_i, image_source,
                   blob_name, filename, download_path, now, blobs, uploads, ncalls,
                   other_done, results, raised, runs>>

NextUpload ==
    \/ SaveCall
    \/ SaveItem
    \/ SaveReturn
    \/ UploadSingle
    \/ DownloadImage

InitUpload == InitSave \/ InitUploadSingle \/ InitDownload

SpecUpload == InitUpload /\ [][NextUpload]_vars

(***************************************************************************)
(* A session: the server answers one tool call after another against the   *)
(* same container and the same local files (the tools are registered on    *)
(* one FastMCP server, lines 673 and 775, and share CONTAINER_NAME).       *)
(***************************************************************************)

\* the tool calls of a session
MaxCalls == 2

\* the sources uploaded in a session
SessionSources == {"http://site.com/pic.JPG", "./Temp/cat.png"}

\* the paths downloaded to in a session
SessionPaths == {"./Temp/out.png", "out.png"}

\* the names stored so far
StoredNames == {uploads[k].blob : k \in 1..Len(uploads)}

InitSession ==
    \/ InitUploadSingle /\ image_source \in SessionSources
    \/ InitDownload /\ filename = "cat.png" /\ download_path \in SessionPaths

\* the next tool call arrives after the previous one was answered; the container,
\* the local files and the clock are those the previous call left
NextCall ==
    /\ pc = "done" /\ ncalls < MaxCalls
    /\ tool \in {"upload_single_image_to_azure", "download_image_from_azure"}
    /\ \/ /\ tool' = "upload_single_image_to_azure"
          /\ image_source' \in SessionSources
          /\ blob_name' \in {"None", "cat.png"}
          /\ UNCHANGED <<filename, download_path>>
       \/ /\ tool' = "download_image_from_azure"
          /\ filename' \in {"cat.png"} \cup StoredNames
          /\ download_path' \in SessionPaths
          /\ UNCHANGED <<image_source, blob_name>>
    /\ pc' = "call"
    /\ ncalls' = ncalls + 1
    /\ response' = <<>> /\ raised' = FALSE /\ calls' = <<>>
    /\ UNCHANGED <<searchVars, image_sources, blob_prefix, src_i, now, blobs, fs,
                   uploads, other_done, results, runs>>

NextSession ==
    \/ UploadSingle
    \/ DownloadImage
    \/ NextCall

SpecSession == InitSession /\ [][NextSession]_vars

(***************************************************************************)
(* The extraction stage of _search_simple_method, run twice on one page     *)
(***************************************************************************)
\* the most snippets a page is made of
MaxSnippets == 2

\* pieces of the pages Google answers with
Snippets ==
    { "\"ou\":\"https://x.com/a.jpg\"",
      "\"ou\":\"https://example.com/a.jpg\"",
      "\"src\":\"https://t0.gstatic.com/images/thumb.jpg\"",
      "<img src=\"https://encrypted-tbn0.gstatic.com/images?q=tbn:a.jpg\">",
      "\"ou\":\"https://example.com/a.jpg\",\"data-src\":\"httpdocs/assets/c.png\"",
      "\"ou\":\"https:\\/\\/www.site.org\\/p\\u003d1.png\" http://cdn.site.org/media/cat%2Ejpeg ",
      "\"ou\":\"https://example.com/icons/a.jpg\"",
      "\"ou\":\"https://xy.com/a.jpg\"" }

\* the pages made of at most n snippets
RECURSIVE PagesOf(_)
PagesOf(n) ==
    IF n = 0 THEN {""}
    ELSE LET shorter == PagesOf(n - 1)
         IN  shorter \cup {page \o snippet : page \in shorter, snippet \in Snippets}

\* line 153: the extraction stage is reached with a non-empty body only
ExtractPages == PagesOf(MaxSnippets) \ {""}

InitExtract ==
    /\ tool = "_search_simple_method"
    /\ pc = "simple_extract"
    /\ html_content \in ExtractPages
    /\ max_results \in -1..MaxRequested
    /\ search_query = "red sunset" /\ requested = max_results
    /\ SELENIUM_AVAILABLE = FALSE
    /\ driver = "None" /\ sessions_started = 0 /\ quit_calls = 0 /\ dom = NoDom
    /\ img_elements = 0 /\ pos = 0 /\ count = 0 /\ page_height = 0
    /\ image_results = <<>> /\ sel_results = <<>>
    /\ url_idx = 1 /\ found_urls = {} /\ unique_urls = <<>>
    /\ probe_i = 1
    /\ valid_results = <<>>
    /\ http_log = <<>>
    /\ results = <<>> /\ response = <<>> /\ raised = FALSE /\ runs = <<>>
    /\ UploadIdle

\* lines 158-195: one run of the extraction stage on html_content; the page
\* is extracted twice, and each run's unique_urls is recorded
ExtractRun ==
    /\ tool = "_search_simple_method" /\ pc = "simple_extract"
    /\ found_urls' = FoundUrls(html_content)
    /\ unique_urls' \in UniqueUrlLists(found_urls', max_results)
    /\ runs' = Append(runs, unique_urls')
    /\ pc' = IF runs = <<>> THEN "simple_extract" ELSE "done"
    /\ UNCHANGED <<inputVars, max_results, selVars, url_idx, html_content, probe_i,
                   valid_results, http_log, results, response, raised>>

NextExtract == ExtractRun

SpecExtract == InitExtract /\ [][NextExtract]_vars

NextSearch ==
    \/ SearchGoogleImages
    \/ SearchImages
    \/ SetupDriver
    \/ Navigate
    \/ SelLoop
    \/ SelFor
    \/ SelPaginate
    \/ SelReturn
    \/ SelFinally
    \/ AfterSelenium
    \/ SimpleFetch
    \/ SimpleExtract
    \/ SimpleProbe
    \/ Finish

SpecSearch == InitSearch /\ [][NextSearch]_vars

(***************************************************************************)
(* The event loop.  The tools are coroutines run by one asyncio event loop *)
(* (mcp.run, line 819): another request runs only while the running one is *)
(* suspended at an await.  search_images calls search_images_selenium as   *)
(* a plain function (line 392), so the only awaits of a search are the     *)
(* HTTP requests of _search_simple_method (lines 144 and 206).             *)
(***************************************************************************)

\* the steps of the other request
MaxOther == 2

\* the search request is not running: it has not started, it waits for the
\* answer of client.get or test_client.head, or it has returned
AtAwait == pc \in {"call", "simple_fetch", "simple_probe", "done"}

\* another request makes a step on the event loop
OtherStep ==
    /\ AtAwait
    /\ other_done < MaxOther
    /\ other_done' = other_done + 1
    /\ UNCHANGED <<tool, pc, searchVars, image_sources, blob_prefix, src_i, image_source,
                   blob_name, filename, download_path, now, blobs, fs, calls, uploads,
                   ncalls, results, response, raised, runs>>

InitLoop == InitSearch /\ requested = 1

NextLoop == NextSearch \/ OtherStep

SpecLoop == InitLoop /\ [][NextLoop]_vars

\* lines 281-367: the steps of the extraction loop
SelLoopStep == SelLoop \/ SelFor \/ SelPaginate

\* The search request alone, with the thread that runs the extraction loop
\* never stopping: the loop is sequential code, so a step of it that can be
\* taken is taken.
SpecSearchFair == InitLoop /\ [][NextSearch]_vars /\ WF_vars(SelLoopStep)

(***************************************************************************)
(* Properties                                                              *)
(***************************************************************************)
\* a query of whitespace only (or of nothing)
BlankQuery(q) == \A i \in 1..Len(q) : At(q, i) \in {" ", "\t", "\n", "\r"}

\* min(requested, 20), the clamped max_results of the request
ClampedRequest == IF requested < MaxResultsCap THEN requested ELSE MaxResultsCap

ValidStatuses(list) == \A i \in DOMAIN list : list[i].status \in {"success", "failed"}

SearchReturned == tool = "search_google_images" /\ pc = "done" /\ ~BlankQuery(search_query)

\* C1 as stated: for every non-blank query and every requested max_results the
\* returned list is no longer than min(max_results, 20), and every element's
\* status is "success" or "failed".
C1_LengthAtMostClamp ==
    SearchReturned => Len(response) <= ClampedRequest /\ ValidStatuses(response)

\* C1 amended: for every non-blank query the returned list is no longer than
\* max(1, min(max_results, 20)) - a request for zero or fewer results is
\* answered with one failure entry - and every status is "success" or "failed".
C1_LengthAtMostClampOrOne ==
    SearchReturned =>
        /\ Len(response) <= (IF ClampedRequest < 1 THEN 1 ELSE ClampedRequest)
        /\ ValidStatuses(response)

C1_Witness ==
    /\ SearchReturned
    /\ requested > MaxResultsCap
    /\ Len(response) = MaxResultsCap
    /\ response[1].status = "success"

\* C2: a call with an empty or whitespace-only query returns exactly one entry,
\* with status "failed", and on that path no browser session is started and no
\* HTTP request (search fetch or probe) is issued.
C2_EmptyQueryRejected ==
    (tool = "search_google_images" /\ BlankQuery(search_query)) =>
        /\ sessions_started = 0
        /\ http_log = <<>>
        /\ pc \in {"call", "done"}
        /\ pc = "done" => Len(response) = 1 /\ response[1].status = "failed"

C2_Witness ==
    /\ tool = "search_google_images" /\ pc = "done"
    /\ search_query # "" /\ BlankQuery(search_query)
    /\ response = <<FailedEntry("Search query cannot be empty")>>

SomeSuccess(list) == \E i \in DOMAIN list : list[i].status = "success"

LaunchFailure == FailedEntry("Failed to setup Chrome driver")

\* C3: the browser strategy, when available, comes before any fallback HTTP
\* request; the fallback runs if and only if the browser strategy is
\* unavailable or returned no entry with status "success" (which is what it
\* returns when it raised or failed to launch); a browser list with a success
\* is returned unchanged without any fallback request; a launch failure is
\* never the final result.
C3_FallbackPolicy ==
    [][ /\ pc = "search_images" => ((pc' = "simple_fetch") <=> ~SELENIUM_AVAILABLE)
        /\ pc = "after_selenium" =>
              /\ http_log = <<>>
              /\ driver = "None"
              /\ IF SomeSuccess(sel_results)
                 THEN pc' = "finish" /\ results' = sel_results
                 ELSE pc' = "simple_fetch"
        /\ (pc' = "simple_fetch" /\ pc # "simple_fetch") =>
              pc \in {"search_images", "after_selenium"}
        /\ (http_log = <<>> /\ http_log' # <<>>) => pc = "simple_fetch"
        /\ pc' = "done" =>
              /\ LaunchFailure \notin Range(response')
              /\ (SELENIUM_AVAILABLE /\ SomeSuccess(sel_results)) =>
                     response' = sel_results /\ http_log' = <<>>
      ]_vars

C3_Witness ==
    /\ tool = "search_google_images" /\ pc = "done"
    /\ SELENIUM_AVAILABLE
    /\ sel_results = <<LaunchFailure>>
    /\ http_log # <<>>
    /\ SomeSuccess(response)

\* the positions after search_images_selenium has returned
SeleniumReturned ==
    pc \in {"after_selenium", "simple_fetch", "simple_extract", "simple_probe", "finish", "done"}

\* C4: whenever search_images_selenium created a browser session, driver.quit
\* has been executed exactly once by the time the call returns, on every exit
\* path, and no session is held after the return.
C4_SessionClosedOnce ==
    /\ quit_calls <= sessions_started
    /\ sessions_started <= 1
    /\ SeleniumReturned => quit_calls = sessions_started /\ driver = "None"

C4_Witness ==
    /\ pc = "after_selenium"
    /\ sessions_started = 1 /\ quit_calls = 1 /\ driver = "None"
    /\ sel_results = <<FailedEntry("Selenium Google Images search failed")>>

\* an entry a caller can branch on
WellFormed(entry) ==
    /\ "status" \in DOMAIN entry
    /\ entry.status \in {"success", "failed"}
    /\ entry.status = "failed" => "error" \in DOMAIN entry /\ entry.error # ""

\* a collaborator call of the upload tools that failed
FailedCall(c) == c.detail \in {"error", "connect_error", "put_error", "sas_error"}

\* the entry that answers for item i of the running upload tool
EntryOf(i) == IF tool = "save_images_to_azure" THEN results[i] ELSE response[1]

\* C5: every tool resolves to a structured value for every input and every
\* failure of a collaborator: no exception reaches the caller, the returned
\* entries carry a valid status, and a failed collaborator call is reported by
\* an entry with status "failed" and an error text.
C5_NoExceptionEscapes ==
    /\ ~raised
    /\ pc = "done" =>
          /\ response # <<>>
          /\ \A i \in DOMAIN response : WellFormed(response[i])
          /\ \A k \in DOMAIN calls :
                FailedCall(calls[k]) => EntryOf(calls[k].item).status = "failed"

C5_Witness ==
    /\ tool = "upload_single_image_to_azure" /\ pc = "done"
    /\ calls = <<Call(1, "fetch", "error")>>
    /\ response[1].status = "failed"

ItemUploaded(i) ==
    \E k \in DOMAIN calls :
        calls[k].item = i /\ calls[k].op = "generate_blob_sas" /\ calls[k].detail = "ok"

EndsWith(s, p) == Len(s) >= Len(p) /\ SubSeq(s, Len(s) - Len(p) + 1, Len(s)) = p

\* the source is a URL whose host is a royalty-free domain or a subdomain of
\* one, whatever the letter case of scheme and host
RoyaltyFreeHost(source) ==
    LET low == Lower(source)
        host == Netloc(low)
    IN  /\ IsHttpUrl(low)
        /\ \E domain \in ROYALTY_FREE_DOMAINS : host = domain \/ EndsWith(host, "." \o domain)

\* the items of the running upload tool that have an outcome
HandledItems ==
    IF tool = "save_images_to_azure" THEN DOMAIN results
    ELSE IF tool = "upload_single_image_to_azure" /\ pc = "done" THEN {1}
    ELSE {}

SourceOf(i) == IF tool = "save_images_to_azure" THEN image_sources[i] ELSE image_source

\* C7: a source whose host is a royalty-free domain or a subdomain of one,
\* whatever the letter case of its scheme and host, yields status "failed"
\* with the royalty-free policy error, and no HTTP fetch and no blob-store
\* call is made for it.
C7_RoyaltyFreeAlwaysBlocked ==
    \A i \in HandledItems :
        RoyaltyFreeHost(SourceOf(i)) =>
            /\ EntryOf(i) = FailedOutcome(SourceOf(i), PolicyError)
            /\ \A k \in DOMAIN calls : calls[k].item # i

\* a GET that answered with a content type that does not begin with "image/"
NonImageFetch(c) ==
    /\ c.op = "fetch"
    /\ c.detail # "error"
    /\ ~(Len(c.detail) >= 6 /\ SubSeq(c.detail, 1, 6) = "image/")

\* C8: when the fetched response's content type does not begin with "image/",
\* the source gets a failed outcome and no blob-store operation (connect,
\* container create, put) is performed for it.
C8_ContentTypeBeforeUpload ==
    tool \in {"save_images_to_azure", "upload_single_image_to_azure"} =>
        \A k \in DOMAIN calls :
            NonImageFetch(calls[k]) =>
                /\ EntryOf(calls[k].item).status = "failed"
                /\ \A j \in DOMAIN calls :
                      calls[j].item = calls[k].item => calls[j].op = "fetch"

C8_Witness ==
    /\ tool = "save_images_to_azure" /\ pc = "done"
    /\ Len(response) = 2
    /\ \E k \in DOMAIN calls : calls[k] = Call(1, "fetch", "text/html")
    /\ response[1].status = "failed"
    /\ response[2].status = "success"

\* the URLs the pages carry in "ou" fields
OuUrls ==
    { "https://x.com/a.jpg", "https://example.com/a.jpg", "https://example.com/icons/a.jpg" }

OuField(url) == "\"ou\":\"" \o url \o "\""

\* an absolute http(s) URL with an image extension
AbsoluteImageUrl(url) ==
    /\ IsHttpUrl(url)
    /\ \E ext \in {".jpg", ".jpeg", ".png", ".gif", ".webp"} : EndsWith(url, ext)

DenylistedDomains == {"gstatic.com", "ggpht.com", "googleusercontent.com"}

OnDenylistedDomain(url) == \E d \in DenylistedDomains : Contains(Netloc(url), d)

\* every URL of the text is a gstatic.com URL, and there is one
OnlyGstaticUrls(text) ==
    /\ Contains(text, "http")
    /\ \A i \in 1..Len(text) :
          StartsWithAt(text, i, "http") =>
              Contains(Netloc(SubSeq(text, i, Len(text))), "gstatic.com")

\* the extraction stage has run on the page (the second run repeats the first
\* on the same text and leaves the same found_urls)
Extracted == tool = "_search_simple_method" /\ Len(runs) = 1

\* C9 as stated: for a page containing "ou":"<url>" with <url> an absolute
\* http(s) image URL not on a denylisted domain, in particular
\* https://x.com/a.jpg, the extracted set contains <url>; for a page whose
\* only URLs are gstatic.com URLs the extracted set is empty.
C9_OuFieldExtracted ==
    Extracted =>
        /\ \A url \in OuUrls :
              (/\ Contains(html_content, OuField(url))
               /\ AbsoluteImageUrl(url)
               /\ ~OnDenylistedDomain(url)) => url \in found_urls
        /\ OnlyGstaticUrls(html_content) => found_urls = {}

\* the markers the extractor refuses, anywhere in the URL
RefusedMarkers ==
    {"gstatic.com", "ggpht.com", "googleusercontent.com", "encrypted-tbn",
     "logo", "icon", "avatar", "profile", "thumbnail"}

\* C9 amended: for a page containing "ou":"<url>" with <url> an absolute
\* http(s) image URL that carries none of the refused markers and is more than
\* 20 and fewer than 2000 characters long (https://example.com/a.jpg is;
\* https://x.com/a.jpg, of 19 characters, is not), the extracted set contains
\* <url>; for a page whose only URLs are gstatic.com URLs it is empty.
C9_LongEnoughOuFieldExtracted ==
    Extracted =>
        /\ \A url \in OuUrls :
              (/\ Contains(html_content, OuField(url))
               /\ AbsoluteImageUrl(url)
               /\ ~\E m \in RefusedMarkers : Contains(Lower(url), m)
               /\ Len(url) > 20 /\ Len(url) < 2000) => url \in found_urls
        /\ OnlyGstaticUrls(html_content) => found_urls = {}

C9_Witness ==
    /\ Extracted
    /\ Contains(html_content, OuField("https://example.com/a.jpg"))
    /\ Contains(html_content, OuField("https://x.com/a.jpg"))
    /\ found_urls = {"https://example.com/a.jpg"}

\* C10: running the extraction stage twice on the same page text with the
\* same max_results yields the same set of candidate URLs, the truncation to
\* the first 3*max_results candidates included (stated here for the requests
\* of at least one result).
C10_ExtractionDeterministic ==
    (tool = "_search_simple_method" /\ Len(runs) = 2 /\ max_results >= 1) =>
        Range(runs[1]) = Range(runs[2])


\* the place in uploads of the last blob stored under a name, 0 when none was
LastStored(name) ==
    LET ks == {k \in 1..Len(uploads) : uploads[k].blob = name}
    IN  IF ks = {} THEN 0 ELSE CHOOSE k \in ks : \A j \in ks : j <= k

\* a download was answered after the container had been reached
DownloadAnswered ==
    /\ tool = "download_image_from_azure" /\ pc = "done"
    /\ Call(1, "connect", "ok") \in Range(calls)

\* the last upload under the downloaded name returned success
UploadedBefore ==
    /\ LastStored(filename) > 0
    /\ uploads[LastStored(filename)].outcome.status = "success"

\* C11: after an upload of data b under name n returned success (its size_bytes
\* being the length of b), a download of n to a path, with no write to n in
\* between and the container reachable, returns success and leaves exactly b
\* at the path.
C11_RoundTrip ==
    (DownloadAnswered /\ UploadedBefore) =>
        LET up == uploads[LastStored(filename)]
        IN  /\ up.outcome.size_bytes = Len(up.data)
            /\ response[1].status = "success"
            /\ download_path \in DOMAIN fs
            /\ fs[download_path] = up.data

\* C12: over any sequence of uploads under generated names, no two of the blobs
\* stored have the same name, so that no such upload overwrites an earlier one.
C12_GeneratedNamesDistinct ==
    \A j, k \in 1..Len(uploads) :
        (j < k /\ uploads[j].auto /\ uploads[k].auto) => uploads[j].blob # uploads[k].blob

\* upload_single_image_to_azure stored the image of a URL under a generated name
GeneratedForUrl ==
    /\ tool = "upload_single_image_to_azure" /\ pc = "done"
    /\ blob_name = "None" /\ IsHttpUrl(image_source)
    /\ response # <<>> /\ response[1].status = "success"

\* the file name of the URL of the call
UrlFileName == Basename(UrlPath(image_source))

\* the name reported is <stem>_<timestamp>.<ext> for the URL of the call
NamedWith(ext) ==
    LET stem == IF UrlFileName = "" THEN "image" ELSE SplitRoot(UrlFileName)
    IN  \E t \in 0..MaxClock :
            response[1].filename = stem \o "_" \o Timestamp(t) \o "." \o ext

\* the extensions the claims name
ClaimedExtensions == {"png", "jpg", "jpeg", "gif", "webp"}

\* C13 as stated: for a URL source uploaded by upload_single_image_to_azure with
\* no blob_name, the name is <stem>_<timestamp>.<extension> with the lowercased
\* extension of the URL's file name.
C13_UrlNameLowercasedExtension ==
    (GeneratedForUrl /\ Contains(UrlFileName, ".")) =>
        NamedWith(Lower(AfterLastDot(UrlFileName)))

\* C13 amended: the extension is the lowercased extension of the URL's file name
\* when that is one of png, jpg, jpeg, gif, webp, and png otherwise (also when
\* the file name has no extension).
C13_UrlNameWhitelistedExtension ==
    GeneratedForUrl =>
        LET ext == Lower(AfterLastDot(UrlFileName))
        IN  NamedWith(IF Contains(UrlFileName, ".") /\ ext \in ClaimedExtensions
                      THEN ext ELSE "png")

\* http://site.com/pic.JPG was stored as pic_<timestamp>.jpg
C13_Witness ==
    /\ GeneratedForUrl
    /\ image_source = "http://site.com/pic.JPG"
    /\ response[1].filename = "pic_" \o Timestamp(0) \o ".jpg"
    /\ blobs["pic_" \o Timestamp(0) \o ".jpg"] = "PNGDATA"

\* C14: every blob name generated by save_images_to_azure or
\* upload_single_image_to_azure, for URL and local-file sources alike, ends with
\* an extension in {png, jpg, jpeg, gif, webp}.
C14_GeneratedExtensionWhitelisted ==
    \A k \in 1..Len(uploads) :
        uploads[k].auto =>
            /\ Contains(uploads[k].blob, ".")
            /\ AfterLastDot(uploads[k].blob) \in ClaimedExtensions

\* a candidate was probed while fewer than max_results entries were collected
ProbeIssued ==
    /\ pc = "simple_probe"
    /\ http_log' # http_log
    /\ Len(valid_results) < max_results

\* the answer of the probe just issued
ProbeAnswer == http_log'[Len(http_log')].answer

\* the probed candidate was appended with the given title
KeptWithTitle(title) ==
    /\ Len(valid_results') = Len(valid_results) + 1
    /\ SubSeq(valid_results', 1, Len(valid_results)) = valid_results
    /\ valid_results'[Len(valid_results')].url = unique_urls[probe_i]
    /\ valid_results'[Len(valid_results')].title = title
    /\ valid_results'[Len(valid_results')].status = "success"

\* the title of an entry marked unvalidated
UnvalidatedTitle == "Image from " \o Netloc(unique_urls[probe_i]) \o " (unvalidated)"

WindowUrls == {"https://xy.com/a.jpg", "https://example.com/a.jpg"}

\* an absolute URL with scheme http or https and a host
AbsoluteHttpUrl(url) == IsHttpUrl(url) /\ Netloc(url) # ""

\* C16: every URL in the extractor's output is a well-formed absolute URL with
\* scheme http or https, contains none of the refused markers and has a length
\* within 20 to 2000; and a candidate that qualifies otherwise is rejected for
\* its length only when the length is outside that window.
C16_OutputUrlsWellFormedInWindow ==
    Extracted =>
        /\ \A url \in found_urls :
              /\ AbsoluteHttpUrl(url)
              /\ ~\E m \in RefusedMarkers : Contains(Lower(url), m)
              /\ Len(url) >= MinUrlLen /\ Len(url) <= MaxUrlLen
        /\ \A url \in WindowUrls :
              (/\ Contains(html_content, OuField(url))
               /\ Len(url) >= MinUrlLen /\ Len(url) <= MaxUrlLen) => url \in found_urls

\* the request executes the browser strategy, from its call to its return
BrowserRunning ==
    pc \in {"setup_driver", "navigate", "sel_loop", "sel_for", "sel_paginate",
            "sel_return", "sel_finally"}

\* C17: while a search_google_images request executes the browser strategy,
\* another request on the same event loop that has steps left can make one.
C17_OthersProgressDuringBrowser ==
    (BrowserRunning /\ other_done < MaxOther) => ENABLED OtherStep

\* C18: the extraction loop of search_images_selenium terminates for every
\* behaviour of the page: once the loop is entered, the return of line 370 is
\* reached.
C18_ExtractionLoopTerminates == (pc = "sel_loop") ~> (pc = "sel_return")

\* a search fetch in the log of requests
IsGet(e) == e.method = "GET"

\* the search fetches made so far, in order
SearchFetches == SelectSeq(http_log, IsGet)

\* the fetch loop of lines 142-151 is over
FetchLoopOver == pc \notin {"call", "search_images", "simple_fetch"} /\ SearchFetches # <<>>

\* the templates are fetched in the fixed order, the second only after the first
\* failed, and none after a fetch succeeded
FetchOrderKept ==
    LET gets == SearchFetches
    IN  /\ Len(gets) <= 2
        /\ Len(gets) >= 1 => Contains(gets[1].url, "&udm=2&")
        /\ Len(gets) = 2 =>
              Contains(gets[2].url, "&tbm=isch&") /\ gets[1].answer = "exception"
        /\ (FetchLoopOver /\ gets[1].answer = "exception") => Len(gets) = 2

\* C19: the two search-URL templates are fetched in a fixed order (udm=2, then
\* tbm=isch), the second if and only if the first failed, no search fetch is
\* made after one succeeded, and the "Failed to fetch" entry is returned only
\* when both fetches failed, hence only after both were made.
C19_FetchOrderAndFailure ==
    /\ FetchOrderKept
    /\ response = <<FetchFailed>> => Len(SearchFetches) = 2

\* the thumbnail the for loop is about to process, clicked without an error
ClickedThumb ==
    /\ pc = "sel_for" /\ pos <= img_elements /\ count < max_results
    /\ ~dom.thumbs[pos].stale
    /\ dom.thumbs[pos].href # LookupError

\* the selectors of lines 305-310 whose element has a qualifying src
QualifyingSelectors(t) == {k \in 1..4 : t.panel[k] # NoElement /\ Qualifies(t.panel[k])}

\* C20: for a clicked thumbnail the recorded URL is the src of the element of
\* the first selector, in the order of the list, whose element has a qualifying
\* src; a result is recorded whenever some selector has such an element, even
\* if an earlier selector matched an element whose src does not qualify.
C20_FirstQualifyingCandidateRecorded ==
    [][(ClickedThumb /\ QualifyingSelectors(dom.thumbs[pos]) # {}) =>
          /\ Len(image_results') = Len(image_results) + 1
          /\ image_results'[Len(image_results')].url =
                 dom.thumbs[pos].panel[Min(QualifyingSelectors(dom.thumbs[pos]))]]_vars

\* a probe in the log of requests
IsHead(e) == e.method = "HEAD"

\* the URLs of a list of entries are pairwise different
DistinctUrls(entries) ==
    \A j, k \in 1..Len(entries) : j < k => entries[j].url # entries[k].url

\* the most probes one search may issue
ProbeBudget(mr) == IF mr > 0 THEN 3 * mr ELSE 0

\* C21: in one HTTP-fallback search at most 3*max_results HEAD probes are issued
\* (none when max_results is not positive), no URL is probed twice, no URL
\* appears twice in the result list, and no probe is issued once max_results
\* entries have been collected.
C21_ProbesBoundedAndDistinct ==
    [][LET before == SelectSeq(http_log, IsHead)
           after == SelectSeq(http_log', IsHead)
       IN  /\ Len(after) <= ProbeBudget(max_results')
           /\ DistinctUrls(after)
           /\ DistinctUrls(valid_results')
           /\ (pc' = "done" /\ after # <<>> /\ response'[1].status = "success")
                 => DistinctUrls(response')
           /\ Len(after) > Len(before) => Len(valid_results) < max_results]_vars

\* a search for one result on a page with four candidates: three were probed,
\* none confirmed an image, and the fourth was never probed
C21_Witness ==
    /\ tool = "search_google_images" /\ pc = "finish"
    /\ max_results = 1
    /\ Cardinality(found_urls) = 4
    /\ Len(SelectSeq(http_log, IsHead)) = 3
    /\ results = <<>>

\* the tools that return upload outcomes
UploadTools == {"save_images_to_azure", "upload_single_image_to_azure"}

\* the shape the status of a returned entry stands for
ShapeFollowsStatus(entry) ==
    /\ "status" \in DOMAIN entry
    /\ entry.status \in {"success", "failed"}
    /\ ("error" \in DOMAIN entry) <=> (entry.status = "failed")
    /\ (tool = "search_google_images" /\ entry.status = "success")
          => DOMAIN entry = {"url", "title", "source", "status"}
    /\ (tool \in UploadTools /\ entry.status = "success")
          => {"blob_url", "markdown", "filename", "size_bytes"} \subseteq DOMAIN entry

\* C22: every entry returned by a tool has a status "success" or "failed" that
\* determines its shape: an error field exactly when the status is "failed";
\* url, title and source (and nothing else, whichever strategy produced it) in a
\* successful search entry; blob_url, markdown, filename and size_bytes in a
\* successful upload outcome.
C22_StatusDeterminesShape ==
    pc = "done" => \A i \in DOMAIN response : ShapeFollowsStatus(response[i])

\* save_images_to_azure returned a successful outcome and a failed one
C22_Witness ==
    /\ tool = "save_images_to_azure" /\ pc = "done"
    /\ Len(response) = 2
    /\ response[1].status = "success" /\ response[1].size_bytes = 7
    /\ response[2].status = "failed" /\ response[2].error # ""

\* the thumbnails in the document whose processing reaches the append
AcceptableThumbs(d) == {k \in 1..d.loaded : Accepted(d.thumbs[k])}

\* a pass of the extraction loop starts on the elements of the document
PassStarts == pc = "sel_loop" /\ pc' = "sel_for"

\* C23: within one run of search_images_selenium every pass of the extraction
\* loop resumes after the last element processed, so that no thumbnail is
\* clicked twice, and no thumbnail contributes two entries: the result list is
\* never longer than the number of thumbnails that yield an entry.
C23_ThumbnailProcessedOnce ==
    [][/\ PassStarts => pos' >= pos
       /\ Len(image_results') <= Cardinality(AcceptableThumbs(dom'))]_vars

\* search_google_images has returned
SearchAnswered == tool = "search_google_images" /\ pc = "done"

\* every entry of the list has the given status
AllWithStatus(list, status) == \A i \in DOMAIN list : list[i].status = status

NoImagesFound == [error |-> "No images found for the search query", status |-> "failed"]

\* C24: the list search_google_images returns is never empty and never mixes
\* outcomes: it is a non-empty list of entries with status "success", or exactly
\* one entry with status "failed"; when search_images returns an empty list,
\* the tool returns the single "No images found" entry.
C24_NeverEmptyNeverMixed ==
    SearchAnswered =>
        /\ response # <<>>
        /\ \/ AllWithStatus(response, "success")
           \/ Len(response) = 1 /\ response[1].status = "failed"
        /\ (~BlankQuery(search_query) /\ results = <<>>) => response = <<NoImagesFound>>

\* the browser ran and found nothing, the fallback fetched a page and found
\* nothing, and the tool answered with the "No images found" entry
C24_Witness ==
    /\ SearchAnswered
    /\ max_results >= 1
    /\ sessions_started = 1 /\ sel_results = <<>>
    /\ http_log # <<>> /\ html_content \notin {"None", ""}
    /\ results = <<>>
    /\ response = <<NoImagesFound>>

Init == InitSearch \/ InitUpload

Next == NextSearch \/ NextUpload

Spec == Init /\ [][Next]_vars
====
